---- MODULE Spec2Model ----
(***************************************************************************)
(* Model of the zia-backend credential and session-token subsystem:        *)
(* app/routers/auth.py (request handlers), app/services/auth.py (password  *)
(* hashing, token codec, directory queries), app/database.py (one session  *)
(* and one transaction per request) and app/config.py (settings).          *)
(*                                                                         *)
(* Strings that the code transforms (emails, passwords) are tuples of      *)
(* one-character strings, so that lower(), strip() and len() are computed. *)
(* Time is counted in ticks, TicksPerSecond ticks to the second; the token *)
(* codec only sees whole seconds, as python-jose does.                     *)
(*                                                                         *)
(* Spec interleaves the handlers of concurrent requests at the granularity *)
(* of database statements; SpecClock serves requests one after the other   *)
(* while the clock runs; SpecRestart does so across restarts of the        *)
(* process with a new signing secret.                                      *)
(***************************************************************************)
EXTENDS Integers, Sequences, FiniteSets, TLC

(***************************************************************************)
(* Bounds of the model.                                                    *)
(***************************************************************************)
NumSlots == 2          \* requests that can be in flight at the same time
MaxUsers == 2          \* user rows ever created
MaxIssued == 4         \* size of the issuance log
MaxClockMoves == 2     \* clock advances in one behaviour
MaxRestarts == 1       \* restarts of the process with a new signing secret
MaxRestartClockMoves == 1  \* clock advances in one behaviour with restarts
TicksPerSecond == 2    \* resolution of the clock

(***************************************************************************)
(* app/config.py: Settings.                                                *)
(***************************************************************************)
access_token_expire_minutes == 30
refresh_token_expire_days == 30

AccessTTL == access_token_expire_minutes * 60 * TicksPerSecond
RefreshTTL == refresh_token_expire_days * 86400 * TicksPerSecond

VARIABLES
    users,       \* committed rows of the users table
    nextId,      \* source of fresh user ids
    jwt_secret,  \* settings.jwt_secret of the running process
    now,         \* wall clock, in ticks
    moves,       \* number of clock advances so far
    issued,      \* log of every token handed out: [tok, at, live]
    req,         \* per slot: the request in flight and its handler's locals
    last         \* the most recent response sent

vars == <<users, nextId, jwt_secret, now, moves, issued, req, last>>

Slots == 1..NumSlots

(***************************************************************************)
(* Strings.                                                                *)
(***************************************************************************)
LowerChar(c) ==
    CASE c = "A" -> "a"
      [] c = "B" -> "b"
      [] c = "X" -> "x"
      [] OTHER -> c

\* str.lower()
lower(s) == [i \in 1..Len(s) |-> LowerChar(s[i])]

RECURSIVE lstrip(_)
lstrip(s) == IF s # <<>> /\ Head(s) = " " THEN lstrip(Tail(s)) ELSE s

RECURSIVE rstrip(_)
rstrip(s) ==
    IF s # <<>> /\ s[Len(s)] = " " THEN rstrip(SubSeq(s, 1, Len(s) - 1)) ELSE s

\* str.strip()
strip(s) == rstrip(lstrip(s))

\* position of the "@" of an address
AtPos(s) == CHOOSE i \in 1..Len(s) : s[i] = "@"

\* pydantic's EmailStr: surrounding whitespace is removed and the domain is
\* lowercased; the local part keeps its letter case.
EmailStr(s) ==
    LET t == strip(s)
    IN  [i \in 1..Len(t) |-> IF i > AtPos(t) THEN LowerChar(t[i]) ELSE t[i]]

\* the normal form the specification speaks of: lowercase, trimmed
Normalize(s) == strip(lower(s))

RawEmails ==
    { <<"a", "@", "x">>,
      <<"A", "@", "x">>,
      <<" ", "a", "@", "X">>,
      <<"b", "@", "x">> }

\* one password of the minimum length and one that is a character short
Passwords ==
    { <<"s", "e", "c", "r", "e", "t">>,
      <<"s", "e", "c", "r", "e">> }

None == "None"
Names == {"Ann"}
OptNames == Names \cup {None}

Salts == {"s1"}

(***************************************************************************)
(* app/services/auth.py: Credential Hasher.                                *)
(***************************************************************************)
\* bcrypt.hashpw: the digest embeds the salt it was computed with
hashpw(password, salt) == [salt |-> salt, digest |-> password]

hash_password(password, salt) == hashpw(password, salt)

\* bcrypt.checkpw: recompute with the salt embedded in the digest, compare
verify_password(plain_password, hashed_password) ==
    hashpw(plain_password, hashed_password.salt) = hashed_password

(***************************************************************************)
(* app/services/auth.py: Token Codec.                                      *)
(***************************************************************************)
\* jose.jwt.encode: a datetime "exp" becomes whole seconds (timegm of the
\* time tuple), and the signature is a function of payload and key.
jwt_encode(payload, key) ==
    [payload |-> payload, sig |-> key]

ExpSeconds(ttl) == (now + ttl) \div TicksPerSecond

create_access_token(user_id, email, name) ==
    jwt_encode([sub |-> user_id,
                email |-> email,
                name |-> IF name = None THEN "" ELSE name,
                exp |-> ExpSeconds(AccessTTL),
                type |-> "access"], jwt_secret)

create_refresh_token(user_id) ==
    jwt_encode([sub |-> user_id,
                exp |-> ExpSeconds(RefreshTTL),
                type |-> "refresh"], jwt_secret)

\* decode_token without the expiry check
decode_token_no_expiry(token) ==
    IF token.sig # jwt_secret
    THEN [ok |-> FALSE, error |-> "JWTError"]
    ELSE [ok |-> TRUE, payload |-> token.payload]

\* decode_token without the signature check
decode_token_no_signature(token) ==
    IF token.payload.exp < now \div TicksPerSecond
    THEN [ok |-> FALSE, error |-> "ExpiredSignatureError"]
    ELSE [ok |-> TRUE, payload |-> token.payload]

\* jose.jwt.decode: JWTError when the signature does not verify,
\* ExpiredSignatureError (a JWTError) when exp < now, in whole seconds.
decode_token(token) ==
    IF token.sig # jwt_secret
    THEN [ok |-> FALSE, error |-> "JWTError"]
    ELSE IF token.payload.exp < now \div TicksPerSecond
    THEN [ok |-> FALSE, error |-> "ExpiredSignatureError"]
    ELSE [ok |-> TRUE, payload |-> token.payload]

(***************************************************************************)
(* app/database.py: get_db.  A request works on its own session; what it   *)
(* flushed becomes the directory at commit and is dropped at rollback.     *)
(***************************************************************************)
\* line 39: await session.commit()
session_commit(committed, flushed) == flushed

\* a rollback that keeps the rows the request flushed
session_rollback_keeping_flushed(committed, flushed) == flushed

\* lines 40-42: await session.rollback(); raise
session_rollback(committed, flushed) == committed

(***************************************************************************)
(* Account Directory: the users table and the queries on it.               *)
(***************************************************************************)
NoUser == [id |-> 0]

\* scalar_one_or_none() of SELECT ... WHERE email = :email
get_user_by_email(email) ==
    LET found == {u \in users : u.email = email}
    IN  IF found = {} THEN NoUser ELSE CHOOSE u \in found : TRUE

\* a SELECT without its WHERE clause: whichever row comes first
get_user_by_id_any_row(user_id) ==
    IF users = {} THEN NoUser ELSE CHOOSE u \in users : TRUE

\* scalar_one_or_none() of SELECT ... WHERE id = :id
get_user_by_id(user_id) ==
    LET found == {u \in users : u.id = user_id}
    IN  IF found = {} THEN NoUser ELSE CHOOSE u \in found : TRUE

\* the identifier a new row gets: never handed out before
NewId == nextId

\* the storage layer's uniqueness constraint on users.email
UniqueViolation(row) == \E u \in users : u.email = row.email

\* create_user storing the address as it was given
create_user_as_given(email, password, name, salt) ==
    [id |-> NewId,
     email |-> email,
     password_hash |-> hash_password(password, salt),
     name |-> name]

\* create_user: the row that is added to the session and flushed
create_user(email, password, name, salt) ==
    [id |-> NewId,
     email |-> strip(lower(email)),
     password_hash |-> hash_password(password, salt),
     name |-> name]

(***************************************************************************)
(* Responses and per-request state.                                        *)
(***************************************************************************)
NoToken == [payload |-> [type |-> "none"], sig |-> 0]

\* an error response (HTTPException, or the global handler's 500)
Error(op, status, detail) ==
    [op |-> op, status |-> status, detail |-> detail,
     access |-> NoToken, refresh |-> NoToken, user |-> NoUser, raced |-> FALSE]

\* TokenResponse
TokenResponse(op, status, access, refresh) ==
    [op |-> op, status |-> status, detail |-> "",
     access |-> access, refresh |-> refresh, user |-> NoUser, raced |-> FALSE]

\* UserResponse
UserResponse(op, status, user) ==
    [op |-> op, status |-> status, detail |-> "",
     access |-> NoToken, refresh |-> NoToken,
     user |-> [id |-> user.id, email |-> user.email, name |-> user.name],
     raced |-> FALSE]

IdleReq ==
    [pc |-> "idle", email |-> <<>>, password |-> <<>>, name |-> None,
     user |-> NoUser, rival |-> FALSE]

\* a new request is served on the first slot that is idle
FreeSlot(r) ==
    /\ req[r].pc = "idle"
    /\ \A q \in Slots : q < r => req[q].pc # "idle"

Tokens == {e.tok : e \in issued}

\* the issuance log after a pair is handed out; live tells whether the
\* subject's row was in the directory at that moment
Issue(access, refresh, live) ==
    issued \cup {[tok |-> access, at |-> now, live |-> live],
                 [tok |-> refresh, at |-> now, live |-> live]}

(***************************************************************************)
(* app/routers/auth.py: get_current_user.                                  *)
(***************************************************************************)
\* get_current_user without the check of the type claim
get_current_user_any_type(token) ==
    LET d == decode_token(token)
    IN  IF ~d.ok
        THEN [ok |-> FALSE, status |-> 401, detail |-> "Invalid or expired token",
              user |-> NoUser]
        ELSE LET user == get_user_by_id(d.payload.sub)
             IN  IF user = NoUser
                 THEN [ok |-> FALSE, status |-> 401, detail |-> "User not found",
                       user |-> NoUser]
                 ELSE [ok |-> TRUE, status |-> 200, detail |-> "", user |-> user]

\* get_current_user answering from the token's claims, without the directory
get_current_user_from_claims(token) ==
    LET d == decode_token(token)
    IN  IF ~d.ok
        THEN [ok |-> FALSE, status |-> 401, detail |-> "Invalid or expired token",
              user |-> NoUser]
        ELSE IF d.payload.type # "access"
        THEN [ok |-> FALSE, status |-> 401, detail |-> "Invalid token type",
              user |-> NoUser]
        ELSE [ok |-> TRUE, status |-> 200, detail |-> "",
              user |-> [id |-> d.payload.sub, email |-> d.payload.email,
                        password_hash |-> hashpw(<<>>, "s1"),
                        name |-> d.payload.name]]

\* get_current_user answering with the name the token was issued with
get_current_user_name_from_claims(token) ==
    LET d == decode_token(token)
    IN  IF ~d.ok
        THEN [ok |-> FALSE, status |-> 401, detail |-> "Invalid or expired token",
              user |-> NoUser]
        ELSE IF d.payload.type # "access"
        THEN [ok |-> FALSE, status |-> 401, detail |-> "Invalid token type",
              user |-> NoUser]
        ELSE LET user == get_user_by_id(d.payload.sub)
             IN  IF user = NoUser
                 THEN [ok |-> FALSE, status |-> 401, detail |-> "User not found",
                       user |-> NoUser]
                 ELSE [ok |-> TRUE, status |-> 200, detail |-> "",
                       user |-> [user EXCEPT !.name = IF d.payload.name = ""
                                                      THEN None
                                                      ELSE d.payload.name]]

\* get_current_user refusing a token whose name claim the profile has outgrown
get_current_user_rejecting_stale_claims(token) ==
    LET d == decode_token(token)
    IN  IF ~d.ok
        THEN [ok |-> FALSE, status |-> 401, detail |-> "Invalid or expired token",
              user |-> NoUser]
        ELSE IF d.payload.type # "access"
        THEN [ok |-> FALSE, status |-> 401, detail |-> "Invalid token type",
              user |-> NoUser]
        ELSE LET user == get_user_by_id(d.payload.sub)
             IN  IF user = NoUser
                 THEN [ok |-> FALSE, status |-> 401, detail |-> "User not found",
                       user |-> NoUser]
                 ELSE IF d.payload.name # (IF user.name = None THEN "" ELSE user.name)
                 THEN [ok |-> FALSE, status |-> 401,
                       detail |-> "Invalid or expired token", user |-> NoUser]
                 ELSE [ok |-> TRUE, status |-> 200, detail |-> "", user |-> user]

\* get_current_user finding the account by the token's email claim
get_current_user_by_email(token) ==
    LET d == decode_token(token)
    IN  IF ~d.ok
        THEN [ok |-> FALSE, status |-> 401, detail |-> "Invalid or expired token",
              user |-> NoUser]
        ELSE IF d.payload.type # "access"
        THEN [ok |-> FALSE, status |-> 401, detail |-> "Invalid token type",
              user |-> NoUser]
        ELSE LET user == get_user_by_email(d.payload.email)
             IN  IF user = NoUser
                 THEN [ok |-> FALSE, status |-> 401, detail |-> "User not found",
                       user |-> NoUser]
                 ELSE [ok |-> TRUE, status |-> 200, detail |-> "", user |-> user]

get_current_user(token) ==
    LET d == decode_token(token)
    IN  IF ~d.ok
        THEN [ok |-> FALSE, status |-> 401, detail |-> "Invalid or expired token",
              user |-> NoUser]
        ELSE IF d.payload.type # "access"
        THEN [ok |-> FALSE, status |-> 401, detail |-> "Invalid token type",
              user |-> NoUser]
        ELSE LET user == get_user_by_id(d.payload.sub)
             IN  IF user = NoUser
                 THEN [ok |-> FALSE, status |-> 401, detail |-> "User not found",
                       user |-> NoUser]
                 ELSE [ok |-> TRUE, status |-> 200, detail |-> "", user |-> user]

(***************************************************************************)
(* app/routers/auth.py: register.                                          *)
(***************************************************************************)
\* lines 67-78: the existence check and the password rule
register_check(email, password) ==
    IF get_user_by_email(email) # NoUser
    THEN [ok |-> FALSE, status |-> 409, detail |-> "Email already registered"]
    ELSE IF Len(password) < 6
    THEN [ok |-> FALSE, status |-> 400,
          detail |-> "Password must be at least 6 characters"]
    ELSE [ok |-> TRUE, status |-> 201, detail |-> ""]

InFlightRegisters == {q \in Slots : req[q].pc = "reg_insert"}

\* requests in flight that will hand out a token pair
InFlightIssuers ==
    {q \in Slots : req[q].pc \in {"reg_insert", "login_issue", "refresh_issue"}}

\* a token-issuing request starts only while the issuance log has room for it
MayIssue == Cardinality(issued) + 2 * Cardinality(InFlightIssuers) + 2 <= MaxIssued

Rivals(r, email) ==
    {q \in InFlightRegisters \ {r} : Normalize(req[q].email) = Normalize(email)}

RegisterCheck(r, raw, password, name) ==
    /\ FreeSlot(r)
    /\ nextId + Cardinality(InFlightRegisters) <= MaxUsers
    /\ MayIssue
    /\ LET email == EmailStr(raw)
           res == register_check(email, password)
       IN  IF res.ok
           THEN /\ req' = [q \in Slots |->
                             IF q = r
                             THEN [IdleReq EXCEPT !.pc = "reg_insert",
                                                  !.email = email,
                                                  !.password = password,
                                                  !.name = name,
                                                  !.rival = Rivals(r, email) # {}]
                             ELSE IF q \in Rivals(r, email)
                             THEN [req[q] EXCEPT !.rival = TRUE]
                             ELSE req[q]]
                /\ last' = last
           ELSE /\ last' = Error("register", res.status, res.detail)
                /\ req' = req
    /\ UNCHANGED <<users, nextId, jwt_secret, now, moves, issued>>

\* lines 80-85 and get_db's commit: insert the row, issue the tokens, commit.
\* A violated uniqueness constraint raises IntegrityError out of the handler:
\* the session is rolled back and the global handler answers 500.
RegisterInsert(r) ==
    /\ req[r].pc = "reg_insert"
    /\ \E salt \in Salts, storage_ok \in BOOLEAN :
         LET user == create_user(req[r].email, req[r].password, req[r].name, salt)
             access_token == create_access_token(user.id, user.email, user.name)
             refresh_token == create_refresh_token(user.id)
         IN  IF UniqueViolation(user)
             THEN /\ last' = [Error("register", 500, "IntegrityError")
                                EXCEPT !.raced = req[r].rival]
                  /\ users' = session_rollback(users, users)
                  /\ UNCHANGED <<nextId, issued>>
             ELSE IF ~storage_ok
             THEN /\ last' = [Error("register", 500, "OperationalError")
                                EXCEPT !.raced = req[r].rival]
                  /\ users' = session_rollback(users, users \cup {user})
                  /\ UNCHANGED <<nextId, issued>>
             ELSE /\ users' = session_commit(users, users \cup {user})
                  /\ nextId' = nextId + 1
                  /\ issued' = Issue(access_token, refresh_token, TRUE)
                  /\ last' = [TokenResponse("register", 201, access_token, refresh_token)
                                EXCEPT !.raced = req[r].rival]
    /\ req' = [req EXCEPT ![r] = IdleReq]
    /\ UNCHANGED <<jwt_secret, now, moves>>

(***************************************************************************)
(* app/routers/auth.py: login.                                             *)
(***************************************************************************)
\* login telling an unknown address from a wrong password
login_lookup_enumerable(email, password) ==
    LET user == get_user_by_email(email)
    IN  IF user = NoUser
        THEN [ok |-> FALSE, status |-> 404, detail |-> "User not found",
              user |-> NoUser]
        ELSE IF ~verify_password(password, user.password_hash)
        THEN [ok |-> FALSE, status |-> 401, detail |-> "Invalid email or password",
              user |-> NoUser]
        ELSE [ok |-> TRUE, status |-> 200, detail |-> "", user |-> user]

\* lines 91-96
login_lookup(email, password) ==
    LET user == get_user_by_email(email)
    IN  IF user = NoUser \/ ~verify_password(password, user.password_hash)
        THEN [ok |-> FALSE, status |-> 401, detail |-> "Invalid email or password",
              user |-> NoUser]
        ELSE [ok |-> TRUE, status |-> 200, detail |-> "", user |-> user]

LoginLookup(r, raw, password) ==
    /\ FreeSlot(r)
    /\ MayIssue
    /\ LET res == login_lookup(EmailStr(raw), password)
       IN  IF res.ok
           THEN /\ req' = [req EXCEPT ![r] = [IdleReq EXCEPT !.pc = "login_issue",
                                                              !.user = res.user]]
                /\ last' = last
           ELSE /\ last' = Error("login", res.status, res.detail)
                /\ req' = req
    /\ UNCHANGED <<users, nextId, jwt_secret, now, moves, issued>>

\* lines 98-101
LoginIssue(r) ==
    /\ req[r].pc = "login_issue"
    /\ LET user == req[r].user
           access_token == create_access_token(user.id, user.email, user.name)
           refresh_token == create_refresh_token(user.id)
       IN  /\ issued' = Issue(access_token, refresh_token,
                            get_user_by_id(user.id) # NoUser)
           /\ last' = TokenResponse("login", 200, access_token, refresh_token)
    /\ req' = [req EXCEPT ![r] = IdleReq]
    /\ UNCHANGED <<users, nextId, jwt_secret, now, moves>>

(***************************************************************************)
(* app/routers/auth.py: refresh.                                           *)
(***************************************************************************)
\* refresh trusting the token's subject without looking the account up
refresh_lookup_from_claims(token) ==
    LET d == decode_token(token)
    IN  IF ~d.ok
        THEN [ok |-> FALSE, status |-> 401,
              detail |-> "Invalid or expired refresh token", user |-> NoUser]
        ELSE IF d.payload.type # "refresh"
        THEN [ok |-> FALSE, status |-> 401, detail |-> "Invalid token type",
              user |-> NoUser]
        ELSE [ok |-> TRUE, status |-> 200, detail |-> "",
              user |-> [id |-> d.payload.sub, email |-> <<>>,
                        password_hash |-> hashpw(<<>>, "s1"), name |-> None]]

\* lines 107-126
refresh_lookup(token) ==
    LET d == decode_token(token)
    IN  IF ~d.ok
        THEN [ok |-> FALSE, status |-> 401,
              detail |-> "Invalid or expired refresh token", user |-> NoUser]
        ELSE IF d.payload.type # "refresh"
        THEN [ok |-> FALSE, status |-> 401, detail |-> "Invalid token type",
              user |-> NoUser]
        ELSE LET user == get_user_by_id(d.payload.sub)
             IN  IF user = NoUser
                 THEN [ok |-> FALSE, status |-> 401, detail |-> "User not found",
                       user |-> NoUser]
                 ELSE [ok |-> TRUE, status |-> 200, detail |-> "", user |-> user]

RefreshLookup(r, token) ==
    /\ FreeSlot(r)
    /\ MayIssue
    /\ LET res == refresh_lookup(token)
       IN  IF res.ok
           THEN /\ req' = [req EXCEPT ![r] = [IdleReq EXCEPT !.pc = "refresh_issue",
                                                              !.user = res.user]]
                /\ last' = last
           ELSE /\ last' = Error("refresh", res.status, res.detail)
                /\ req' = req
    /\ UNCHANGED <<users, nextId, jwt_secret, now, moves, issued>>

\* a refresh that retires every outstanding token by changing the secret
RefreshIssueRotatingSecret(r) ==
    /\ req[r].pc = "refresh_issue"
    /\ LET user == req[r].user
           access_token == create_access_token(user.id, user.email, user.name)
           new_refresh_token == create_refresh_token(user.id)
       IN  /\ issued' = Issue(access_token, new_refresh_token,
                            get_user_by_id(user.id) # NoUser)
           /\ last' = TokenResponse("refresh", 200, access_token, new_refresh_token)
    /\ req' = [req EXCEPT ![r] = IdleReq]
    /\ jwt_secret' = jwt_secret + 1
    /\ UNCHANGED <<users, nextId, now, moves>>

\* lines 128-131
RefreshIssue(r) ==
    /\ req[r].pc = "refresh_issue"
    /\ LET user == req[r].user
           access_token == create_access_token(user.id, user.email, user.name)
           new_refresh_token == create_refresh_token(user.id)
       IN  /\ issued' = Issue(access_token, new_refresh_token,
                            get_user_by_id(user.id) # NoUser)
           /\ last' = TokenResponse("refresh", 200, access_token, new_refresh_token)
    /\ req' = [req EXCEPT ![r] = IdleReq]
    /\ UNCHANGED <<users, nextId, jwt_secret, now, moves>>

(***************************************************************************)
(* app/routers/auth.py: get_me, update_me, delete_me.                      *)
(***************************************************************************)
GetMe(r, token) ==
    /\ FreeSlot(r)
    /\ LET res == get_current_user(token)
       IN  last' = IF res.ok
                   THEN UserResponse("get_me", 200, res.user)
                   ELSE Error("get_current_user", res.status, res.detail)
    /\ UNCHANGED <<users, nextId, jwt_secret, now, moves, issued, req>>

UpdateMeResolve(r, token, name) ==
    /\ FreeSlot(r)
    /\ LET res == get_current_user(token)
       IN  IF res.ok
           THEN /\ req' = [req EXCEPT ![r] = [IdleReq EXCEPT !.pc = "upd_write",
                                                              !.user = res.user,
                                                              !.name = name]]
                /\ last' = last
           ELSE /\ last' = Error("get_current_user", res.status, res.detail)
                /\ req' = req
    /\ UNCHANGED <<users, nextId, jwt_secret, now, moves, issued>>

\* an UPDATE without its WHERE clause: the name is written to every row
update_me_all_rows(current_user, name) ==
    LET row == get_user_by_id(current_user.id)
    IN  IF row = NoUser
        THEN [ok |-> FALSE, users |-> users, user |-> NoUser]
        ELSE IF name = None
        THEN [ok |-> TRUE, users |-> users, user |-> row]
        ELSE [ok |-> TRUE, users |-> {[u EXCEPT !.name = name] : u \in users},
              user |-> [row EXCEPT !.name = name]]

\* lines 151-160 and get_db's commit. The unit of work sends an UPDATE of the
\* name column when the attribute was changed; an UPDATE or a refresh of a row
\* that is gone raises (StaleDataError, InvalidRequestError) and the request
\* ends with the global handler's 500.
update_me(current_user, name) ==
    LET row == get_user_by_id(current_user.id)
        dirty == name # None /\ name # current_user.name
    IN  IF row = NoUser
        THEN [ok |-> FALSE, users |-> users, user |-> NoUser]
        ELSE LET updated == IF dirty THEN [row EXCEPT !.name = name] ELSE row
             IN  [ok |-> TRUE, users |-> (users \ {row}) \cup {updated},
                  user |-> updated]

UpdateMeWrite(r) ==
    /\ req[r].pc = "upd_write"
    /\ LET res == update_me(req[r].user, req[r].name)
       IN  /\ users' = res.users
           /\ last' = IF res.ok
                      THEN UserResponse("update_me", 200, res.user)
                      ELSE Error("update_me", 500, "row is gone")
    /\ req' = [req EXCEPT ![r] = IdleReq]
    /\ UNCHANGED <<nextId, jwt_secret, now, moves, issued>>

DeleteMeResolve(r, token) ==
    /\ FreeSlot(r)
    /\ LET res == get_current_user(token)
       IN  IF res.ok
           THEN /\ req' = [req EXCEPT ![r] = [IdleReq EXCEPT !.pc = "del_commit",
                                                              !.user = res.user]]
                /\ last' = last
           ELSE /\ last' = Error("get_current_user", res.status, res.detail)
                /\ req' = req
    /\ UNCHANGED <<users, nextId, jwt_secret, now, moves, issued>>

\* line 169 and get_db's commit: DELETE ... WHERE id = :id
delete_me(current_user) == {u \in users : u.id # current_user.id}

DeleteMeCommit(r) ==
    /\ req[r].pc = "del_commit"
    /\ users' = delete_me(req[r].user)
    /\ last' = Error("delete_me", 204, "")
    /\ req' = [req EXCEPT ![r] = IdleReq]
    /\ UNCHANGED <<nextId, jwt_secret, now, moves, issued>>

(***************************************************************************)
(* Environment: the clock, and a restart with a new signing secret.        *)
(***************************************************************************)
ClockSteps == {1, AccessTTL, RefreshTTL}

Tick(d, limit) ==
    /\ moves < limit
    /\ now' = now + d
    /\ moves' = moves + 1
    /\ UNCHANGED <<users, nextId, jwt_secret, issued, req, last>>

\* settings are read once at start-up: a new secret means a new process, and
\* the requests in flight at that moment are lost with their transactions.
Restart ==
    /\ jwt_secret <= MaxRestarts
    /\ jwt_secret' = jwt_secret + 1
    /\ req' = [r \in Slots |-> IdleReq]
    /\ UNCHANGED <<users, nextId, now, moves, issued, last>>

Init ==
    /\ users = {}
    /\ nextId = 1
    /\ jwt_secret = 1
    /\ now = 0
    /\ moves = 0
    /\ issued = {}
    /\ req = [r \in Slots |-> IdleReq]
    /\ last = Error("none", 0, "")

\* the handlers' steps of the requests served on the slots S, interleaved at
\* the granularity of database statements
Handlers(S) ==
    \/ \E r \in S, raw \in RawEmails, password \in Passwords, name \in OptNames :
         RegisterCheck(r, raw, password, name)
    \/ \E r \in S : RegisterInsert(r)
    \/ \E r \in S, raw \in RawEmails, password \in Passwords :
         LoginLookup(r, raw, password)
    \/ \E r \in S : LoginIssue(r)
    \/ \E r \in S, token \in Tokens : RefreshLookup(r, token)
    \/ \E r \in S : RefreshIssue(r)
    \/ \E r \in S, token \in Tokens : GetMe(r, token)
    \/ \E r \in S, token \in Tokens, name \in OptNames :
         UpdateMeResolve(r, token, name)
    \/ \E r \in S : UpdateMeWrite(r)
    \/ \E r \in S, token \in Tokens : DeleteMeResolve(r, token)
    \/ \E r \in S : DeleteMeCommit(r)

\* concurrent requests, interleaved at the granularity of database statements
Next == Handlers(Slots)

Spec == Init /\ [][Next]_vars

\* requests served one after the other while the clock runs
NextClock ==
    \/ Handlers({1})
    \/ \E d \in ClockSteps : Tick(d, MaxClockMoves)

SpecClock == Init /\ [][NextClock]_vars

\* requests served one after the other across restarts of the process with a
\* new signing secret
NextRestart ==
    \/ Handlers({1})
    \/ \E d \in ClockSteps : Tick(d, MaxRestartClockMoves)
    \/ Restart

SpecRestart == Init /\ [][NextRestart]_vars

(***************************************************************************)
(* Properties.                                                             *)
(***************************************************************************)
\* ids of the accounts whose deletion has been committed
Deleted == {i \in 1..(nextId - 1) : get_user_by_id(i) = NoUser}

Unauthorized(res) == ~res.ok /\ res.status = 401

\* C1: token type separation. Every validly signed, unexpired token that was
\* ever issued is refused with 401 by get_current_user when its type is
\* refresh and by refresh when its type is access; none is accepted by both.
TokenTypeSeparation ==
    \A t \in Tokens :
        decode_token(t).ok =>
            /\ t.payload.type = "refresh" => Unauthorized(get_current_user(t))
            /\ t.payload.type = "access" => Unauthorized(refresh_lookup(t))
            /\ ~(get_current_user(t).ok /\ refresh_lookup(t).ok)

\* C1 witness: a protected endpoint has just refused, for its type, a valid
\* refresh token of an existing account.
TokenTypeSeparationWitness ==
    /\ last.op = "get_current_user"
    /\ last.detail = "Invalid token type"
    /\ \E t \in Tokens :
         /\ t.payload.type = "refresh"
         /\ decode_token(t).ok
         /\ get_user_by_id(t.payload.sub) # NoUser

\* C2: a register request that ran concurrently with another one for the same
\* normalized email (both passed the existence check before either inserted)
\* ends as the one success (201) or with AccountExists (409), never with a
\* generic failure, and the email is held by one row.
ConcurrentRegisterConflict ==
    (last.op = "register" /\ last.raced) =>
        /\ last.status \in {201, 409}
        /\ \A u, v \in users : u.email = v.email => u = v

\* C3: once an account's deletion is committed, get_current_user refuses with
\* 401 every unexpired, validly signed access token whose subject it is.
DeletedAccountTokensRejected ==
    \A t \in Tokens :
        (t.payload.type = "access" /\ decode_token(t).ok /\ t.payload.sub \in Deleted)
            => Unauthorized(get_current_user(t))

\* C3 witness: a protected endpoint has just answered "User not found" while
\* a still valid access token of a deleted account is outstanding that a login
\* or refresh racing with the deletion handed out after it was committed.
DeletedAccountTokensRejectedWitness ==
    /\ last.op = "get_current_user"
    /\ last.detail = "User not found"
    /\ \E e \in issued :
         /\ ~e.live
         /\ e.tok.payload.type = "access"
         /\ decode_token(e.tok).ok
         /\ e.tok.payload.sub \in Deleted

\* the time to live, in ticks, that the settings give to a token of a type
TTL(type) == IF type = "access" THEN AccessTTL ELSE RefreshTTL

\* the whole second a tick falls in
Second(t) == t \div TicksPerSecond

\* C4 as stated: a validly signed token issued at tick t with time to live T
\* is accepted by decode_token at every time strictly before t + T and
\* rejected at every time strictly after t + T.
TokenExpiryExact ==
    \A e \in issued :
        e.tok.sig = jwt_secret =>
            /\ now < e.at + TTL(e.tok.payload.type) => decode_token(e.tok).ok
            /\ now > e.at + TTL(e.tok.payload.type) => ~decode_token(e.tok).ok

\* C4 as amended: such a token is accepted at every time strictly before
\* t + T and rejected as expired at every time in a later whole second than
\* t + T (expiry is compared in whole seconds); a token that decode_token
\* rejects is accepted neither by get_current_user nor by refresh.
TokenExpiryWholeSeconds ==
    \A e \in issued :
        /\ e.tok.sig = jwt_secret =>
             /\ now < e.at + TTL(e.tok.payload.type) => decode_token(e.tok).ok
             /\ Second(now) > Second(e.at + TTL(e.tok.payload.type)) =>
                  /\ ~decode_token(e.tok).ok
                  /\ decode_token(e.tok).error = "ExpiredSignatureError"
        /\ ~decode_token(e.tok).ok =>
             /\ Unauthorized(get_current_user(e.tok))
             /\ Unauthorized(refresh_lookup(e.tok))

\* C4 witness: a protected endpoint has just refused a token while a validly
\* signed access token of an existing account is past its expiry, and a
\* refresh token issued with it is still within its own, longer time to live.
TokenExpiryWitness ==
    /\ last.op = "get_current_user"
    /\ last.detail = "Invalid or expired token"
    /\ \E e, f \in issued :
         /\ e.tok.sig = jwt_secret
         /\ e.tok.payload.type = "access"
         /\ get_user_by_id(e.tok.payload.sub) # NoUser
         /\ Second(now) > Second(e.at + AccessTTL)
         /\ f.tok.sig = jwt_secret
         /\ f.tok.payload.type = "refresh"
         /\ f.at = e.at
         /\ decode_token(f.tok).ok

\* C5: a failed login is answered 401 "Invalid email or password" whether the
\* address has no account or the password does not verify: the response
\* carries nothing else, and for every input the handler's failure is this one.
LoginFailureUniform ==
    /\ (last.op = "login" /\ last.status # 200) =>
           last = Error("login", 401, "Invalid email or password")
    /\ \A raw \in RawEmails, password \in Passwords :
           LET res == login_lookup(EmailStr(raw), password)
           IN  ~res.ok =>
                   /\ res.status = 401
                   /\ res.detail = "Invalid email or password"
                   /\ res.user = NoUser

\* C5 witness: a login has just failed in a state where one address has an
\* account (so a wrong password fails) and another has none.
LoginFailureUniformWitness ==
    /\ last.op = "login"
    /\ last.status = 401
    /\ \E raw1, raw2 \in RawEmails, password \in Passwords :
         /\ get_user_by_email(EmailStr(raw1)) # NoUser
         /\ ~login_lookup(EmailStr(raw1), password).ok
         /\ get_user_by_email(EmailStr(raw2)) = NoUser
         /\ ~login_lookup(EmailStr(raw2), password).ok

\* C6: the pair a successful refresh returns is brand-new: neither of its
\* tokens was issued before.
RefreshPairBrandNew ==
    [][\A r \in Slots :
          (req[r].pc = "refresh_issue" /\ req'[r].pc = "idle") =>
              /\ last'.access \notin Tokens
              /\ last'.refresh \notin Tokens]_vars

\* C7: a token signed under a secret that is no longer the process's secret is
\* refused with 401 by get_current_user and by refresh, whatever its expiry
\* and whether or not its account exists.
RotatedSecretRejectsAll ==
    \A t \in Tokens :
        t.sig # jwt_secret =>
            /\ Unauthorized(get_current_user(t))
            /\ Unauthorized(refresh_lookup(t))

\* C7 witness: after a restart with a new secret a protected endpoint has just
\* refused a token, while an unexpired access token of an existing account,
\* signed under the old secret, is outstanding.
RotatedSecretWitness ==
    /\ last.op = "get_current_user"
    /\ last.detail = "Invalid or expired token"
    /\ \E t \in Tokens :
         /\ t.sig # jwt_secret
         /\ t.payload.type = "access"
         /\ t.payload.exp >= Second(now)
         /\ get_user_by_id(t.payload.sub) # NoUser

\* C8: when an account is stored under the normalized form of the requested
\* address, register fails with 409 (AccountExists).
RegisterNormalizedConflict ==
    \A raw \in RawEmails, password \in Passwords :
        (\E u \in users : u.email = Normalize(EmailStr(raw))) =>
            register_check(EmailStr(raw), password).status = 409

\* C9: login finds the account by the normalized address: for every stored
\* account, every address with the same normalized form and the account's
\* password log in.
LoginByNormalizedEmail ==
    \A u \in users, raw \in RawEmails, password \in Passwords :
        (Normalize(EmailStr(raw)) = u.email /\ verify_password(password, u.password_hash))
            => login_lookup(EmailStr(raw), password).ok

\* C10: the directory holds at most one user per normalized email, and every
\* stored email is in normalized form.
OneUserPerNormalizedEmail ==
    \A u \in users :
        /\ u.email = Normalize(u.email)
        /\ \A v \in users : Normalize(u.email) = Normalize(v.email) => u = v

\* C10 witness: two accounts exist, registrations, a profile update and an
\* account deletion having been served, and the update has just been committed.
OneUserPerNormalizedEmailWitness ==
    /\ Cardinality(users) = 2
    /\ last.op = "update_me"
    /\ last.status = 200
    /\ last.user.name = "Ann"

\* the fields of a directory row that a profile response carries
Profile(u) == [id |-> u.id, email |-> u.email, name |-> u.name]

\* C11: get_current_user returns the live directory row of the token's
\* subject, not the token's snapshot: for every issued token it accepts, the
\* user it resolves is the stored row whose id is the token's subject; a
\* profile response carries the fields of such a live row; and the claims
\* embedded in issued tokens never change.
LiveRecordResolved ==
    [][/\ \A t \in Tokens :
            LET res == get_current_user(t)
            IN  res.ok => (res.user \in users /\ res.user.id = t.payload.sub)
       /\ (last' # last /\ last'.op = "get_me") =>
            \E t \in Tokens :
                /\ get_current_user(t).ok
                /\ last'.user = Profile(get_user_by_id(t.payload.sub))
       /\ issued \subseteq issued']_vars

\* C11 witness: a profile has just been returned with the name "Ann" that a
\* committed update gave the user, on a still accepted access token of that
\* user whose embedded name claim is the empty one it was issued with.
LiveRecordResolvedWitness ==
    /\ last.op = "get_me"
    /\ last.status = 200
    /\ last.user.name = "Ann"
    /\ \E t \in Tokens :
         /\ t.payload.type = "access"
         /\ t.payload.sub = last.user.id
         /\ t.payload.name = ""
         /\ get_current_user(t).ok
         /\ get_current_user(t).user.name = "Ann"
         /\ \A s \in Tokens :
              (s.payload.type = "access" /\ s.payload.sub = t.payload.sub) => s = t

\* C12: a register request that fails (409, 400, or a storage error raised
\* at the insert or at the commit) leaves the directory exactly as it was: the
\* step that answers it adds, changes and removes no row.
FailedRegisterLeavesDirectory ==
    [][(/\ last'.op = "register"
        /\ last'.status # 201
        /\ \/ last' # last
           \/ \E r \in Slots : req[r].pc = "reg_insert" /\ req'[r].pc = "idle")
          => users' = users]_vars

\* C12 witness: a register request whose row was flushed has just failed at
\* the commit, and the directory holds the one account it held before.
FailedRegisterLeavesDirectoryWitness ==
    /\ last.op = "register"
    /\ last.status = 500
    /\ last.detail = "OperationalError"
    /\ Cardinality(users) = 1
    /\ nextId = 2

\* C13: refresh refuses with 401 every validly signed, unexpired refresh token
\* whose subject's deletion is committed, and issues nothing for it: the step
\* that answers 401 adds no token to those handed out and returns none, and a
\* refresh goes on to issue tokens only for a user the directory holds when
\* the request looks it up.
RefreshOfDeletedAccountRejected ==
    [][/\ \A t \in Tokens :
            (/\ t.payload.type = "refresh"
             /\ decode_token(t).ok
             /\ t.payload.sub \in Deleted) => Unauthorized(refresh_lookup(t))
       /\ (last' # last /\ last'.op = "refresh" /\ last'.status = 401) =>
            /\ issued' = issued
            /\ last'.access = NoToken
            /\ last'.refresh = NoToken
       /\ \A r \in Slots :
            (req[r].pc = "idle" /\ req'[r].pc = "refresh_issue") =>
                req'[r].user \in users]_vars

\* C13 witness: refresh has just answered "User not found" while a validly
\* signed, unexpired refresh token of a deleted account is outstanding.
RefreshOfDeletedAccountRejectedWitness ==
    /\ last.op = "refresh"
    /\ last.status = 401
    /\ last.detail = "User not found"
    /\ \E t \in Tokens :
         /\ t.payload.type = "refresh"
         /\ decode_token(t).ok
         /\ t.payload.sub \in Deleted

\* C14 as stated: while the secret is unchanged, every token handed out is
\* accepted by the endpoint of its type (get_current_user for an access
\* token, refresh for a refresh token) until it expires, whatever operations
\* were served in between.
SessionEndsOnlyAtExpiry ==
    \A e \in issued :
        (e.tok.sig = jwt_secret /\ now < e.at + TTL(e.tok.payload.type)) =>
            /\ e.tok.payload.type = "access" => get_current_user(e.tok).ok
            /\ e.tok.payload.type = "refresh" => refresh_lookup(e.tok).ok

\* C14 as amended: while the secret is unchanged and the token's account has
\* not been deleted, every token handed out is accepted by the endpoint of
\* its type until it expires, whatever other operations were served in
\* between; once the account's deletion is committed both endpoints refuse
\* the account's tokens with 401.
SessionEndsAtExpiryOrDeletion ==
    \A e \in issued :
        /\ (/\ e.tok.sig = jwt_secret
            /\ now < e.at + TTL(e.tok.payload.type)
            /\ e.tok.payload.sub \notin Deleted) =>
               /\ e.tok.payload.type = "access" => get_current_user(e.tok).ok
               /\ e.tok.payload.type = "refresh" => refresh_lookup(e.tok).ok
        /\ e.tok.payload.sub \in Deleted =>
               /\ Unauthorized(get_current_user(e.tok))
               /\ Unauthorized(refresh_lookup(e.tok))

\* C14 witness: a profile has just been returned on an access token issued
\* at an earlier time and not yet expired, after the token's user changed
\* their name and another account was deleted.
SessionEndsAtExpiryOrDeletionWitness ==
    /\ last.op = "get_me"
    /\ last.status = 200
    /\ Deleted # {}
    /\ \E e \in issued :
         /\ e.tok.payload.type = "access"
         /\ e.tok.payload.sub = last.user.id
         /\ e.at < now
         /\ now < e.at + AccessTTL
         /\ e.tok.payload.name = ""
         /\ last.user.name = "Ann"
         /\ \A f \in issued :
              (f.tok.payload.type = "access" /\ f.tok.payload.sub = e.tok.payload.sub)
                  => f = e

\* C15: refresh does not invalidate the token it was given and changes no
\* server-side state: neither step of a refresh changes the directory, the id
\* counter or the secret; every token that refresh accepted before a refresh
\* completed is accepted after it; and whether refresh accepts a refresh token
\* depends only on its signature, its expiry and its account's existence,
\* however often it was presented.
RefreshKeepsTokenValid ==
    [][/\ \A r \in Slots :
            (\/ req[r].pc = "idle" /\ req'[r].pc = "refresh_issue"
             \/ req[r].pc = "refresh_issue" /\ req'[r].pc = "idle") =>
                /\ users' = users
                /\ nextId' = nextId
                /\ jwt_secret' = jwt_secret
                /\ \A t \in Tokens : refresh_lookup(t).ok => (refresh_lookup(t).ok)'
       /\ \A t \in Tokens :
            (/\ t.payload.type = "refresh"
             /\ decode_token(t).ok
             /\ get_user_by_id(t.payload.sub) # NoUser) => refresh_lookup(t).ok]_vars

\* C15 witness: a refresh has just succeeded and returned a refresh token
\* other than the only other one ever handed out, so the token it was given
\* is one of the two, and refresh still accepts both.
RefreshKeepsTokenValidWitness ==
    /\ last.op = "refresh"
    /\ last.status = 200
    /\ Cardinality({t \in Tokens : t.payload.type = "refresh"}) = 2
    /\ \E t \in Tokens :
         /\ t.payload.type = "refresh"
         /\ t # last.refresh
         /\ t.payload.sub = last.refresh.payload.sub
         /\ refresh_lookup(t).ok
         /\ refresh_lookup(last.refresh).ok

\* C16: register decides by the email check, then the password check: for an
\* address that has an account it answers 409 whatever the password; for an
\* address that has none it answers 400 exactly when the password has fewer
\* than 6 characters, and otherwise creates the user and returns its tokens
\* (201), so a request that no other register raced with and that met no
\* storage outage ends in one of these three ways.
RegisterOutcomeOrder ==
    /\ \A raw \in RawEmails, password \in Passwords :
         LET email == EmailStr(raw)
             res == register_check(email, password)
             exists == get_user_by_email(email) # NoUser
         IN  /\ exists => res.status = 409
             /\ ~exists => (res.status = 400 <=> Len(password) < 6)
             /\ (~exists /\ Len(password) >= 6) => res.ok
    /\ (last.op = "register" /\ ~last.raced /\ last.detail # "OperationalError") =>
           last.status \in {201, 409, 400}

\* C17: subject binding.  The two tokens of every pair handed out carry the
\* same subject; register's pair carries the id of the row it has just
\* added, login's the id of the row whose email is the one presented and
\* whose password verified, and refresh's the subject of the refresh token it
\* was given, so a chain of refreshes stays with one user.
SubjectBinding ==
    /\ [](/\ \A e \in issued :
              \E f \in issued :
                  /\ f.at = e.at
                  /\ f.tok.payload.type # e.tok.payload.type
                  /\ f.tok.payload.sub = e.tok.payload.sub
          /\ \A t \in Tokens :
              LET res == refresh_lookup(t)
              IN  res.ok =>
                    /\ res.user.id = t.payload.sub
                    /\ create_access_token(res.user.id, res.user.email,
                                           res.user.name).payload.sub = t.payload.sub
                    /\ create_refresh_token(res.user.id).payload.sub = t.payload.sub
          /\ \A raw \in RawEmails, password \in Passwords :
              LET res == login_lookup(EmailStr(raw), password)
              IN  res.ok =>
                    /\ res.user \in users
                    /\ res.user.email = EmailStr(raw)
                    /\ verify_password(password, res.user.password_hash))
    /\ [][\A r \in Slots :
            /\ (req[r].pc = "idle" /\ req'[r].pc = "refresh_issue") =>
                 \E t \in Tokens :
                     refresh_lookup(t).ok /\ req'[r].user = refresh_lookup(t).user
            /\ (req[r].pc = "idle" /\ req'[r].pc = "login_issue") =>
                 \E raw \in RawEmails, password \in Passwords :
                     /\ login_lookup(EmailStr(raw), password).ok
                     /\ req'[r].user = login_lookup(EmailStr(raw), password).user
            /\ (req[r].pc \in {"login_issue", "refresh_issue"} /\ req'[r].pc = "idle") =>
                 /\ last'.access.payload.sub = req[r].user.id
                 /\ last'.refresh.payload.sub = req[r].user.id
            /\ (req[r].pc = "reg_insert" /\ req'[r].pc = "idle" /\ last'.status = 201) =>
                 /\ last'.access.payload.sub = last'.refresh.payload.sub
                 /\ \E u \in users' \ users :
                      /\ users' = users \cup {u}
                      /\ u.id = last'.access.payload.sub
                      /\ \A v \in users : v.id # u.id]_vars

\* C17 witness: a refresh has just returned a pair whose two tokens carry the
\* id of an existing user, the subject of every refresh token handed out
\* before.
SubjectBindingWitness ==
    /\ last.op = "refresh"
    /\ last.status = 200
    /\ last.access.payload.sub = last.refresh.payload.sub
    /\ get_user_by_id(last.refresh.payload.sub) # NoUser
    /\ last.access.payload.email = get_user_by_id(last.refresh.payload.sub).email
    /\ \A t \in Tokens : t.payload.sub = last.refresh.payload.sub

\* C18: no resurrection.  Every token handed out to an account that has
\* since been deleted is refused with 401 by get_current_user and by refresh,
\* also when a new account holds the same email; a token resolves only to
\* the row whose id is its subject; and the id the next new account gets is
\* the id of no row and the subject of no token handed out.
NoResurrection ==
    /\ \A t \in Tokens :
         /\ t.payload.sub \in Deleted =>
              /\ Unauthorized(get_current_user(t))
              /\ Unauthorized(refresh_lookup(t))
         /\ get_current_user(t).ok => get_current_user(t).user.id = t.payload.sub
         /\ refresh_lookup(t).ok => refresh_lookup(t).user.id = t.payload.sub
         /\ t.payload.sub # NewId
    /\ \A u \in users : u.id # NewId

\* C18 witness: a protected endpoint has just answered "User not found"
\* while an otherwise valid access token of a deleted account is outstanding
\* whose email claim is the email of a new account with another id.
NoResurrectionWitness ==
    /\ last.op = "get_current_user"
    /\ last.detail = "User not found"
    /\ \E t \in Tokens, u \in users :
         /\ t.payload.type = "access"
         /\ decode_token(t).ok
         /\ t.payload.sub \in Deleted
         /\ u.email = t.payload.email
         /\ u.id # t.payload.sub

\* C19: frame of the two writes.  The step that commits a profile update
\* adds and removes no row, leaves every row but the resolved user's as it
\* was, leaves that user's id, email and password_hash as they were, and
\* changes nothing at all when the request carried no name; the step that
\* commits a deletion removes the resolved user's row and no other and adds
\* none; and the user either of them works on is the one get_current_user
\* resolved from a presented token.
ProfileWritesFrame ==
    [][\A r \in Slots :
         /\ (req[r].pc = "idle" /\ req'[r].pc \in {"upd_write", "del_commit"}) =>
              /\ users' = users
              /\ \E t \in Tokens :
                   /\ get_current_user(t).ok
                   /\ req'[r].user = get_current_user(t).user
         /\ (req[r].pc = "upd_write" /\ req'[r].pc = "idle") =>
              /\ Cardinality(users') = Cardinality(users)
              /\ \A u \in users :
                   IF u.id # req[r].user.id
                   THEN u \in users'
                   ELSE \E v \in users' :
                            /\ v.id = u.id
                            /\ v.email = u.email
                            /\ v.password_hash = u.password_hash
                            /\ v.name \in {u.name, req[r].name}
              /\ req[r].name = None => users' = users
         /\ (req[r].pc = "del_commit" /\ req'[r].pc = "idle") =>
              /\ users' \subseteq users
              /\ \A u \in users : u.id # req[r].user.id => u \in users'
              /\ \A v \in users' : v.id # req[r].user.id]_vars

\* C19 witness: a profile update has just been committed for one of two
\* accounts: its row carries the new name and the other account's row still
\* has none.
ProfileWritesFrameWitness ==
    /\ last.op = "update_me"
    /\ last.status = 200
    /\ \E u, v \in users :
         /\ u.id = last.user.id
         /\ u.name = "Ann"
         /\ v.id # u.id
         /\ v.name = None

====
